---- MODULE Spec2Model ----
(***************************************************************************)
(* wss-rs: working-set-size estimation from the kernel's idle-page bitmap. *)
(* The model follows src/src/main.rs (the orchestrator), src/src/idlemap.rs *)
(* (the idle bitmap), src/src/scanner.rs (the memory-map listing) and       *)
(* src/src/pagemap.rs (the translation-table walker).                       *)
(*                                                                         *)
(* A u64 is kept exactly, as three limbs <<a, b, c>> of 16, 24 and 24 bits  *)
(* (value a * 2^48 + b * 2^24 + c), because the model checker's integers    *)
(* are 32 bits wide and the program's constants are not.                    *)
(***************************************************************************)
EXTENDS Integers, Sequences, FiniteSets, TLC

(***************************************************************************)
(* u64 arithmetic on limbs                                                 *)
(***************************************************************************)
LimbHi == 2^16
LimbLo == 2^24

U64(a, b, c) == <<a, b, c>>
U64Zero == <<0, 0, 0>>

\* A natural number below 2^31 as a u64.
U64FromNat(n) == <<0, n \div LimbLo, n % LimbLo>>

\* Whether a u64 is small enough to be a model integer (below 2^31).
U64FitsNat(x) == x[1] = 0 /\ x[2] < 2^7

U64ToNat(x) == x[2] * LimbLo + x[3]

U64Lt(x, y) ==
    \/ x[1] < y[1]
    \/ x[1] = y[1] /\ x[2] < y[2]
    \/ x[1] = y[1] /\ x[2] = y[2] /\ x[3] < y[3]

U64Gt(x, y) == U64Lt(y, x)
U64Ge(x, y) == ~U64Lt(x, y)
U64Le(x, y) == ~U64Lt(y, x)

\* x - y modulo 2^64 (what a wrapping subtraction yields).
U64WrappingSub(x, y) ==
    LET c  == x[3] - y[3]
        bc == IF c < 0 THEN 1 ELSE 0
        b  == x[2] - y[2] - bc
        bb == IF b < 0 THEN 1 ELSE 0
        a  == x[1] - y[1] - bb
    IN  <<a % LimbHi, b % LimbLo, c % LimbLo>>

\* x + n modulo 2^64, for 0 <= n < 2^24.
U64AddSmall(x, n) ==
    LET c == x[3] + n
        b == x[2] + (c \div LimbLo)
        a == x[1] + (b \div LimbLo)
    IN  <<a % LimbHi, b % LimbLo, c % LimbLo>>

\* x / d for d a power of two dividing 2^12 (d = 8, d = 4096).
U64DivPow2(x, d) ==
    LET up == LimbLo \div d
    IN  <<x[1] \div d,
          (x[1] % d) * up + (x[2] \div d),
          (x[2] % d) * up + (x[3] \div d)>>

\* x * m modulo 2^64, for 0 <= m <= 64.
U64MulSmall(x, m) ==
    LET c == x[3] * m
        b == x[2] * m + (c \div LimbLo)
        a == x[1] * m + (b \div LimbLo)
    IN  <<a % LimbHi, b % LimbLo, c % LimbLo>>

\* Bitwise and of two naturals.
RECURSIVE BitAnd(_, _)
BitAnd(x, y) ==
    IF x = 0 \/ y = 0 THEN 0
    ELSE (x % 2) * (y % 2) + 2 * BitAnd(x \div 2, y \div 2)

U64And(x, y) == <<BitAnd(x[1], y[1]), BitAnd(x[2], y[2]), BitAnd(x[3], y[3])>>

\* 1 << k for 0 <= k < 64.
U64Shl1(k) ==
    IF k < 24 THEN <<0, 0, 2^k>>
    ELSE IF k < 48 THEN <<0, 2^(k - 24), 0>>
    ELSE <<2^(k - 48), 0, 0>>

(***************************************************************************)
(* Program constants                                                       *)
(***************************************************************************)
\* main.rs: const PAGE_OFFSET: u64 = 0xffff880000000000
PAGE_OFFSET == U64(65535, 8912896, 0)

\* pagemap.rs: PAGEMAP_ENTRY_SIZE, PFN_MASK (bits 0-54), PRESENT_MASK (1 << 63)
PAGEMAP_ENTRY_SIZE == 8
PFN_MASK_56_bits == U64(255, LimbLo - 1, LimbLo - 1)
PFN_MASK == U64(127, LimbLo - 1, LimbLo - 1)
PRESENT_MASK == U64Shl1(63)

\* pagemap.rs: let page_size = 4096; const CHUNK_SIZE: usize = 1024
page_size == 4096
CHUNK_SIZE == 1024

\* idlemap.rs: const IDLEMAP_BUF_SIZE: usize = 4096
IDLEMAP_BUF_SIZE == 4096

(***************************************************************************)
(* idlemap.rs: the loaded bitmap and its bit test                          *)
(***************************************************************************)
Bytes == 0 .. 255
NoIndex == 0 - 1

\* data[byte_idx] of a Vec<u8> held as a sequence (the guard of is_page_active
\* makes the index valid).
DataAt(data, byte_idx) == data[byte_idx + 1]

\* is_page_active with the bounds check off by one (byte_idx > len): the read at
\* index len is outside the buffer.
is_page_active_off_by_one(data, pfn) ==
    LET byte_idx == U64DivPow2(pfn, 8)
    IN  IF U64Gt(byte_idx, U64FromNat(Len(data)))
        THEN [ret |-> FALSE, idx |-> NoIndex]
        ELSE LET at   == U64ToNat(byte_idx)
                 byte == IF at < Len(data) THEN DataAt(data, at) ELSE 0
                 bit  == pfn[3] % 8
             IN  [ret |-> BitAnd(byte, 2^bit) = 0, idx |-> at]

\* is_page_active with the bits of a byte numbered from the top.
is_page_active_msb_first(data, pfn) ==
    LET byte_idx == U64DivPow2(pfn, 8)
    IN  IF U64Ge(byte_idx, U64FromNat(Len(data)))
        THEN [ret |-> FALSE, idx |-> NoIndex]
        ELSE LET byte == DataAt(data, U64ToNat(byte_idx))
                 bit  == 7 - (pfn[3] % 8)
             IN  [ret |-> BitAnd(byte, 2^bit) = 0, idx |-> U64ToNat(byte_idx)]

\* IdleMap::is_page_active(&self, pfn): ret is the value returned, idx the index
\* self.data was read at (NoIndex when the bounds check returned first).
is_page_active(data, pfn) ==
    LET byte_idx == U64DivPow2(pfn, 8)
    IN  IF U64Ge(byte_idx, U64FromNat(Len(data)))
        THEN [ret |-> FALSE, idx |-> NoIndex]
        ELSE LET byte == DataAt(data, U64ToNat(byte_idx))
                 bit  == pfn[3] % 8
             IN  [ret |-> BitAnd(byte, 2^bit) = 0, idx |-> U64ToNat(byte_idx)]

(***************************************************************************)
(* pagemap.rs: one translation-table entry                                 *)
(***************************************************************************)
\* entry_not_present testing bit 62 instead of bit 63.
entry_not_present_bit62(entry) == U64And(entry, U64Shl1(62)) = U64Zero

\* (entry & PRESENT_MASK) == 0
entry_not_present(entry) == U64And(entry, PRESENT_MASK) = U64Zero

\* let pfn = entry & PFN_MASK
entry_pfn(entry) == U64And(entry, PFN_MASK)

\* process_entry with walked_pages counted before the frame number is tested.
process_entry_walks_zero_frame(entry, data, active, walked) ==
    IF entry_not_present(entry)
    THEN [active |-> active, walked |-> walked, idx |-> NoIndex]
    ELSE LET r == is_page_active(data, entry_pfn(entry))
         IN  IF entry_pfn(entry) = U64Zero
             THEN [active |-> active, walked |-> walked + 1, idx |-> NoIndex]
             ELSE [active |-> IF r.ret THEN active + 1 ELSE active,
                   walked |-> walked + 1,
                   idx    |-> r.idx]

\* process_entry with the bit test made before the frame number is tested.
process_entry_tests_zero_frame(entry, data, active, walked) ==
    IF entry_not_present(entry)
    THEN [active |-> active, walked |-> walked, idx |-> NoIndex]
    ELSE LET r == is_page_active(data, entry_pfn(entry))
         IN  IF entry_pfn(entry) = U64Zero
             THEN [active |-> IF r.ret THEN active + 1 ELSE active,
                   walked |-> walked, idx |-> r.idx]
             ELSE [active |-> IF r.ret THEN active + 1 ELSE active,
                   walked |-> walked + 1,
                   idx    |-> r.idx]

\* The body of the loop over one chunk's entries: the counters after `entry`.
process_entry(entry, data, active, walked) ==
    IF entry_not_present(entry)
    THEN [active |-> active, walked |-> walked, idx |-> NoIndex]
    ELSE LET pfn == entry_pfn(entry)
         IN  IF pfn = U64Zero
             THEN [active |-> active, walked |-> walked, idx |-> NoIndex]
             ELSE LET r == is_page_active(data, pfn)
                  IN  [active |-> IF r.ret THEN active + 1 ELSE active,
                       walked |-> walked + 1,
                       idx    |-> r.idx]

(***************************************************************************)
(* scanner.rs: parsing one line of the memory-map listing                  *)
(* A line is a sequence of one-character strings.                          *)
(***************************************************************************)
IsSpace(ch) == ch \in {" ", "\t"}

\* line.split_whitespace().collect(): the maximal runs of non-space characters.
RECURSIVE SplitWs(_, _, _)
SplitWs(s, cur, acc) ==
    IF s = <<>>
    THEN IF cur = <<>> THEN acc ELSE Append(acc, cur)
    ELSE IF IsSpace(Head(s))
         THEN SplitWs(Tail(s), <<>>, IF cur = <<>> THEN acc ELSE Append(acc, cur))
         ELSE SplitWs(Tail(s), Append(cur, Head(s)), acc)

split_whitespace(line) == SplitWs(line, <<>>, <<>>)

\* s.split('-').collect(): the pieces between hyphens, empty pieces included.
RECURSIVE SplitOn(_, _, _, _)
SplitOn(s, sep, cur, acc) ==
    IF s = <<>> THEN Append(acc, cur)
    ELSE IF Head(s) = sep
         THEN SplitOn(Tail(s), sep, <<>>, Append(acc, cur))
         ELSE SplitOn(Tail(s), sep, Append(cur, Head(s)), acc)

split_hyphen(s) == SplitOn(s, "-", <<>>, <<>>)

HexDigits == <<"0", "1", "2", "3", "4", "5", "6", "7", "8", "9",
               "a", "b", "c", "d", "e", "f">>
HexUpper == <<"0", "1", "2", "3", "4", "5", "6", "7", "8", "9",
              "A", "B", "C", "D", "E", "F">>

IsHexDigit(ch) == \E k \in 1 .. 16 : HexDigits[k] = ch \/ HexUpper[k] = ch
HexValue(ch) == (CHOOSE k \in 1 .. 16 : HexDigits[k] = ch \/ HexUpper[k] = ch) - 1

\* The digits of from_str_radix, most significant first: None on a character that
\* is no digit and on a value that does not fit 64 bits.
RECURSIVE HexAccumulate(_, _)
HexAccumulate(s, val) ==
    IF s = <<>> THEN [ok |-> TRUE, val |-> val]
    ELSE IF ~IsHexDigit(Head(s)) THEN [ok |-> FALSE, val |-> U64Zero]
    ELSE IF val[1] >= 2^12 THEN [ok |-> FALSE, val |-> U64Zero]
    ELSE HexAccumulate(Tail(s), U64AddSmall(U64MulSmall(val, 16), HexValue(Head(s))))

\* u64::from_str_radix(s, 16).ok(): an optional leading "+", at least one digit.
from_str_radix16(s) ==
    LET digits == IF s # <<>> /\ Head(s) = "+" THEN Tail(s) ELSE s
    IN  IF digits = <<>> THEN [ok |-> FALSE, val |-> U64Zero]
        ELSE HexAccumulate(digits, U64Zero)

None == [some |-> FALSE]
Some(region) == [some |-> TRUE, region |-> region]

\* parse_map_line(line) -> Option<MemoryRegion>
parse_map_line(line) ==
    LET parts == split_whitespace(line)
    IN  IF Len(parts) < 1 THEN None
        ELSE LET range_parts == split_hyphen(parts[1])
             IN  IF Len(range_parts) # 2 THEN None
                 ELSE LET start == from_str_radix16(range_parts[1])
                          end   == from_str_radix16(range_parts[2])
                      IN  IF ~start.ok THEN None
                          ELSE IF ~end.ok THEN None
                          ELSE Some([start |-> start.val, end |-> end.val])

\* A byte sequence of the file that is not UTF-8, held as one element of a line.
InvalidUtf8 == "<ff>"

\* Whether reader.lines() yields Ok for the line: its bytes decode as UTF-8.
Decodable(line) == \A k \in 1 .. Len(line) : line[k] # InvalidUtf8

\* The regions get_maps pushes for the lines of a listing, in order.
RECURSIVE ParsedRegions(_)
ParsedRegions(lines) ==
    IF lines = <<>> THEN <<>>
    ELSE LET r == parse_map_line(Head(lines))
         IN  IF r.some THEN <<r.region>> \o ParsedRegions(Tail(lines))
             ELSE ParsedRegions(Tail(lines))

(***************************************************************************)
(* The environment: the files the program reads                            *)
(***************************************************************************)
\* Translation-table entries (bit 63 present, bits 55-62 flags, bits 0-54 frame).
EntryPresent10 == U64(32768, 0, 10)
EntryAbsent == U64Zero
EntryPresent20 == U64(32768, 0, 20)
EntryPresent20Flags == U64(65408, 0, 20)
EntryAbsent20Flags == U64(32640, 0, 20)
EntryPresent0 == U64(32768, 0, 0)
EntryPresent0Flags == U64(65408, 0, 0)
EntryPresent64 == U64(32768, 0, 64)
EntryPresentMax == U64(32768 + 127, LimbLo - 1, LimbLo - 1)

\* A translation table repeats a pattern of entries over the virtual pages.
TableScenario == <<EntryPresent10, EntryAbsent, EntryPresent20>>
TableMixed ==
    <<EntryPresent20Flags, EntryAbsent20Flags, EntryPresent0Flags, EntryPresent64,
      EntryPresentMax, EntryPresent10, EntryPresent0>>
Tables == {TableScenario, TableMixed}

\* The entry of virtual page vpn.
EntryAtVpn(tbl, vpn) == tbl[(vpn[3] % Len(tbl)) + 1]

\* Lines of a memory-map listing.
\* "00003000-00006000 rw-p 00000000 00:00 0"
LineScenario ==
    <<"0", "0", "0", "0", "3", "0", "0", "0", "-", "0", "0", "0", "0", "6", "0", "0", "0", " ", "r", "w", "-", "p", " ", "0", "0", "0", "0", "0", "0", "0", "0", " ", "0", "0", ":", "0", "0", " ", "0">>
\* "6000-c000 r--p 00000000 08:01 42 /lib/x"
LineSix ==
    <<"6", "0", "0", "0", "-", "c", "0", "0", "0", " ", "r", "-", "-", "p", " ", "0", "0", "0", "0", "0", "0", "0", "0", " ", "0", "8", ":", "0", "1", " ", "4", "2", " ", "/", "l", "i", "b", "/", "x">>
\* "7000-7000 ---p"
LineEmptyRange ==
    <<"7", "0", "0", "0", "-", "7", "0", "0", "0", " ", "-", "-", "-", "p">>
\* "10000-411000 rw-p 00000000 00:00 0 [heap]"
LineBig ==
    <<"1", "0", "0", "0", "0", "-", "4", "1", "1", "0", "0", "0", " ", "r", "w", "-", "p", " ", "0", "0", "0", "0", "0", "0", "0", "0", " ", "0", "0", ":", "0", "0", " ", "0", " ", "[", "h", "e", "a", "p", "]">>
\* "ffff87fffffff000-ffff880000000000 rw-p"
LineBelow ==
    <<"f", "f", "f", "f", "8", "7", "f", "f", "f", "f", "f", "f", "f", "0", "0", "0", "-", "f", "f", "f", "f", "8", "8", "0", "0", "0", "0", "0", "0", "0", "0", "0", "0", " ", "r", "w", "-", "p">>
\* "ffff880000000000-ffff880000002000 rw-p"
LineAtOffset ==
    <<"f", "f", "f", "f", "8", "8", "0", "0", "0", "0", "0", "0", "0", "0", "0", "0", "-", "f", "f", "f", "f", "8", "8", "0", "0", "0", "0", "0", "0", "2", "0", "0", "0", " ", "r", "w", "-", "p">>
\* "ffff880000001000-ffff880000002000 rw-p"
LineAbove ==
    <<"f", "f", "f", "f", "8", "8", "0", "0", "0", "0", "0", "0", "1", "0", "0", "0", "-", "f", "f", "f", "f", "8", "8", "0", "0", "0", "0", "0", "0", "2", "0", "0", "0", " ", "r", "w", "-", "p">>
\* "ffffffffff600000-ffffffffff601000 r-xp 0 00:00 0 [vsyscall]"
LineVsyscall ==
    <<"f", "f", "f", "f", "f", "f", "f", "f", "f", "f", "6", "0", "0", "0", "0", "0", "-", "f", "f", "f", "f", "f", "f", "f", "f", "f", "f", "6", "0", "1", "0", "0", "0", " ", "r", "-", "x", "p", " ", "0", " ", "0", "0", ":", "0", "0", " ", "0", " ", "[", "v", "s", "y", "s", "c", "a", "l", "l", "]">>
\* "  "
LineBlank ==
    <<" ", " ">>
\* "address perms offset"
LineHeader ==
    <<"a", "d", "d", "r", "e", "s", "s", " ", "p", "e", "r", "m", "s", " ", "o", "f", "f", "s", "e", "t">>
\* "40g000-50000 r-xp"
LineBadHex ==
    <<"4", "0", "g", "0", "0", "0", "-", "5", "0", "0", "0", "0", " ", "r", "-", "x", "p">>

\* "7000-8000 r--p 00000000 08:01 42 /" followed by a byte that is not UTF-8
LineUndecodable ==
    <<"7", "0", "0", "0", "-", "8", "0", "0", "0", " ", "r", "-", "-", "p", " ", "0", "0", "0", "0", "0", "0", "0", "0", " ", "0", "8", ":", "0", "1", " ", "4", "2", " ", "/", InvalidUtf8>>

ListingScenario == <<LineScenario>>
ListingMixed == <<LineHeader, LineScenario, LineBlank, LineSix, LineEmptyRange, LineBadHex>>
ListingHigh == <<LineScenario, LineBelow, LineAtOffset, LineAbove, LineVsyscall>>
ListingBig == <<LineScenario, LineBig, LineScenario>>
ListingRepeat == <<LineScenario, LineSix, LineScenario>>
ListingUndecodable == <<LineScenario, LineUndecodable, LineSix>>
Listings == {ListingScenario, ListingMixed, ListingHigh, ListingBig, ListingRepeat,
             ListingUndecodable}

\* Bounds of the model.
BitmapLen == 8
BitmapLens == {0, BitmapLen}

\* Durations of the command line, in nanoseconds (-0.01 s, 0, 0.005 s, 0.009999999 s
\* and 0.01 s), and the minimum of main.rs:32 (0.01 s).
MinDurationNs == 10000000
Durations == {0 - MinDurationNs, 0, MinDurationNs \div 2, MinDurationNs - 1, MinDurationNs}

\* What the clock may advance by (nanoseconds): during the reset, beyond the
\* requested sleep, during the load and the scan.
ResetCosts == {0, 3001}
Oversleeps == {0, 700}
ScanCosts == {0, 5999}

\* The frames the watched process may touch while the program sleeps.
TouchSets == {{}, {20}, {0, 10, 20}}

\* The frames a bitmap of len bytes has a bit for.
FramesOf(len) == 0 .. (8 * len - 1)

\* idlemap.rs 37: a write "only sets user memory bits; kernel is silently
\* ignored". The frames of the bitmap whose bit a write leaves alone: none, or
\* frame 10.
KernelFrameSets(len) == {{}, {10} \cap FramesOf(len)}

\* The value of last_write before set_idlemap has written.
NoWrite == 0 - 2

(***************************************************************************)
(* State                                                                   *)
(***************************************************************************)
VARIABLES
    pc,                 \* where main is
    exit_code,          \* the process's exit status once it has ended
    duration,           \* args.duration, in nanoseconds
    now,                \* the monotonic clock, in nanoseconds
    ts1, set_duration, ts3, ts4, est_micros,
    kbitmap,            \* the kernel's idle bitmap file (bytes)
    wpos,               \* position of the handle set_idlemap writes through
    idle_map,           \* IdleMap.data once loaded
    listing,            \* the lines of /proc/<pid>/maps
    kernel_frames,      \* frames whose bit the kernel does not set on a write
    regions,            \* the Vec get_maps returned
    region_idx,         \* the region the for loop of main is at (from 1)
    table,              \* the contents of /proc/<pid>/pagemap
    file_pos,           \* position of Pagemap.file, in bytes
    num_pages, pages_processed, pages_to_read, buffer, i,
    active_pages, walked_pages,
    total_active_pages, total_walked_pages,
    last_idx,           \* index the last bit test read idle_map at, or NoIndex
    io,                 \* the kinds of file operation attempted so far
    phases,             \* the steps of main taken so far, in order
    walk_log,           \* per region of the loop: what became of it
    touched_frames,     \* tracked frames accessed while main slept
    last_write          \* what the last write of set_idlemap returned, if any

envVars == <<duration, listing, table, kernel_frames>>
timeVars == <<now, ts1, set_duration, ts3, ts4, est_micros>>
idleVars == <<kbitmap, wpos, idle_map>>
scanVars == <<regions, region_idx, total_active_pages, total_walked_pages>>
prVars == <<file_pos, num_pages, pages_processed, pages_to_read, buffer, i,
            active_pages, walked_pages, last_idx>>
histVars == <<io, phases, walk_log, touched_frames, last_write>>
vars == <<pc, exit_code, envVars, timeVars, idleVars, scanVars, prVars, histVars>>

Init ==
    /\ pc = "main"
    /\ exit_code = NoIndex
    /\ duration \in Durations
    /\ now = 0
    /\ ts1 = 0 /\ set_duration = 0 /\ ts3 = 0 /\ ts4 = 0 /\ est_micros = 0
    /\ \E len \in BitmapLens : kbitmap = [k \in 1 .. len |-> 0]
    /\ kernel_frames \in KernelFrameSets(Len(kbitmap))
    /\ wpos = 0
    /\ idle_map = <<>>
    /\ listing \in Listings
    /\ regions = <<>>
    /\ region_idx = 0
    /\ table \in Tables
    /\ file_pos = U64Zero
    /\ num_pages = U64Zero /\ pages_processed = U64Zero
    /\ pages_to_read = 0 /\ buffer = <<>> /\ i = 0
    /\ active_pages = 0 /\ walked_pages = 0
    /\ total_active_pages = 0 /\ total_walked_pages = 0
    /\ last_idx = NoIndex
    /\ io = {}
    /\ phases = <<>>
    /\ walk_log = <<>>
    /\ touched_frames = {}
    /\ last_write = NoWrite

\* Exit1 with the error reported and main going on to the sleep.
Exit1_goes_on == pc' = "sleep" /\ UNCHANGED exit_code

\* process::exit(1)
Exit1 == pc' = "exit" /\ exit_code' = 1

(***************************************************************************)
(* main.rs: argument check                                                 *)
(***************************************************************************)
\* duration_too_short with the threshold at 0.005 s.
duration_too_short_half(d) == d < MinDurationNs \div 2

\* args.duration < 0.01
duration_too_short(d) == d < MinDurationNs

\* main.rs 30-43: reject a short interval, else take ts1 and call set_idlemap.
Main_Start ==
    /\ pc = "main"
    /\ IF duration_too_short(duration)
       THEN /\ Exit1
            /\ UNCHANGED <<timeVars, phases>>
       ELSE /\ pc' = "set_idlemap"
            /\ ts1' = now
            /\ phases' = Append(phases, "reset")
            /\ UNCHANGED <<exit_code, now, set_duration, ts3, ts4, est_micros>>
    /\ UNCHANGED <<touched_frames, last_write, envVars, idleVars, scanVars, prVars, io, walk_log>>

(***************************************************************************)
(* idlemap.rs: set_idlemap                                                 *)
(***************************************************************************)
\* idlemap.rs 19-31: the control file must exist.
SetIdlemap_Exists ==
    /\ pc = "set_idlemap"
    /\ \E exists \in BOOLEAN :
          IF exists THEN pc' = "set_open" /\ UNCHANGED exit_code ELSE Exit1
    /\ UNCHANGED <<envVars, timeVars, idleVars, scanVars, prVars, histVars>>

\* idlemap.rs 33: OpenOptions::new().write(true).open(path)?
SetIdlemap_Open ==
    /\ pc = "set_open"
    /\ io' = io \cup {"idle_open_write"}
    /\ \E ok \in BOOLEAN :
          IF ok THEN pc' = "set_write" /\ wpos' = 0 /\ UNCHANGED exit_code
          ELSE Exit1 /\ UNCHANGED wpos
    /\ UNCHANGED <<touched_frames, last_write, envVars, timeVars, kbitmap, idle_map, scanVars, prVars,
                   phases, walk_log>>

BitOf(byte, k) == (byte \div 2^k) % 2

\* What the kernel may answer to write(&buf) at position pos: a count or an error.
WriteErr == 0 - 1
WriteResults(bitmap, pos) ==
    LET rem == Len(bitmap) - pos
        full == IF rem < IDLEMAP_BUF_SIZE THEN rem ELSE IDLEMAP_BUF_SIZE
    IN  IF rem > 0 THEN {WriteErr, full, 1} ELSE {WriteErr, 0}

\* The byte at index k (from 1) after `value` was written to it: the bits of
\* the frames in `ignored` keep what they held.
ByteWritten(old, value, k, ignored) ==
    LET RECURSIVE Put(_, _)
        Put(byte, bit) ==
            IF bit = 8 THEN byte
            ELSE Put(IF ((k - 1) * 8 + bit) \in ignored
                     THEN byte
                     ELSE byte - BitOf(byte, bit) * 2^bit + BitOf(value, bit) * 2^bit,
                     bit + 1)
    IN  Put(old, 0)

\* BitmapWritten with a buffer of zero bytes.
BitmapWritten_zero_buffer(bitmap, pos, n, ignored) ==
    [k \in 1 .. Len(bitmap) |->
        IF k > pos /\ k <= pos + n THEN ByteWritten(bitmap[k], 0, k, ignored)
        ELSE bitmap[k]]

\* The bitmap after n bytes of 0xff were written at pos.
BitmapWritten(bitmap, pos, n, ignored) ==
    [k \in 1 .. Len(bitmap) |->
        IF k > pos /\ k <= pos + n THEN ByteWritten(bitmap[k], 255, k, ignored)
        ELSE bitmap[k]]

\* SetIdlemap_Write with the loop of the C original, while (write(..) > 0):
\* an error ends the loop like a zero does and the reset counts as done.
SetIdlemap_Write_error_ends_quietly ==
    /\ pc = "set_write"
    /\ io' = io \cup {"idle_write"}
    /\ \E res \in WriteResults(kbitmap, wpos) :
          /\ last_write' = res
          /\ IF res = WriteErr \/ res = 0
             THEN /\ \E d \in ResetCosts :
                        /\ now' = now + d
                        /\ set_duration' = now' - ts1
                  /\ pc' = "sleep"
                  /\ UNCHANGED <<exit_code, ts1, ts3, ts4, est_micros, kbitmap, wpos>>
             ELSE /\ kbitmap' = BitmapWritten(kbitmap, wpos, res, kernel_frames)
                  /\ wpos' = wpos + res
                  /\ UNCHANGED <<pc, exit_code, timeVars>>
    /\ UNCHANGED <<touched_frames, envVars, idle_map, scanVars, prVars, phases, walk_log>>

\* idlemap.rs 42-50 and main.rs 44-50: one turn of the write loop.
SetIdlemap_Write ==
    /\ pc = "set_write"
    /\ io' = io \cup {"idle_write"}
    /\ \E res \in WriteResults(kbitmap, wpos) :
          /\ last_write' = res
          /\ IF res = WriteErr
             THEN /\ Exit1
                  /\ UNCHANGED <<timeVars, kbitmap, wpos>>
             ELSE IF res = 0
             THEN /\ \E d \in ResetCosts :
                        /\ now' = now + d
                        /\ set_duration' = now' - ts1
                  /\ pc' = "sleep"
                  /\ UNCHANGED <<exit_code, ts1, ts3, ts4, est_micros, kbitmap, wpos>>
             ELSE /\ kbitmap' = BitmapWritten(kbitmap, wpos, res, kernel_frames)
                  /\ wpos' = wpos + res
                  /\ UNCHANGED <<pc, exit_code, timeVars>>
    /\ UNCHANGED <<touched_frames, envVars, idle_map, scanVars, prVars, phases, walk_log>>

(***************************************************************************)
(* main.rs: sleep                                                          *)
(***************************************************************************)
\* The kernel's bitmap after the frames of `touched` were accessed: their bits
\* are cleared.
Touched(bitmap, touched) ==
    [k \in 1 .. Len(bitmap) |->
        LET RECURSIVE Clear(_, _)
            Clear(byte, bit) ==
                IF bit = 8 THEN byte
                ELSE Clear(IF ((k - 1) * 8 + bit) \in touched
                           THEN byte - BitOf(byte, bit) * 2^bit ELSE byte,
                           bit + 1)
        IN  Clear(bitmap[k], 0)]

\* Main_Sleep with main going back to the reset once the sleep is over.
Main_Sleep_resets_again ==
    /\ pc = "sleep"
    /\ pc' = "set_idlemap"
    /\ phases' = Append(phases, "sleep")
    /\ UNCHANGED <<exit_code, envVars, timeVars, idleVars, scanVars, prVars, io,
                   walk_log, touched_frames, last_write>>

\* main.rs 53-55: thread::sleep(duration), then ts3.
Main_Sleep ==
    /\ pc = "sleep"
    /\ \E over \in Oversleeps, touched \in TouchSets :
          /\ now' = now + duration + over
          /\ kbitmap' = Touched(kbitmap, touched)
          /\ touched_frames' = touched \cap FramesOf(Len(kbitmap))
    /\ ts3' = now'
    /\ pc' = "load_open"
    /\ phases' = Append(phases, "sleep")
    /\ UNCHANGED <<last_write, exit_code, envVars, ts1, set_duration, ts4, est_micros, wpos,
                   idle_map, scanVars, prVars, io, walk_log>>

(***************************************************************************)
(* idlemap.rs: load                                                        *)
(***************************************************************************)
\* idlemap.rs 55-56 and main.rs 59-65: File::open(path)?
Load_Open ==
    /\ pc = "load_open"
    /\ io' = io \cup {"idle_open_read"}
    /\ phases' = Append(phases, "load")
    /\ \E ok \in BOOLEAN :
          IF ok THEN pc' = "load_read" /\ UNCHANGED exit_code ELSE Exit1
    /\ UNCHANGED <<touched_frames, last_write, envVars, timeVars, idleVars, scanVars, prVars, walk_log>>

\* idlemap.rs 57-63 and main.rs 59-65: file.read_to_end(&mut data)?
Load_Read ==
    /\ pc = "load_read"
    /\ io' = io \cup {"idle_read"}
    /\ \E ok \in BOOLEAN :
          IF ok THEN pc' = "get_maps" /\ idle_map' = kbitmap /\ UNCHANGED exit_code
          ELSE Exit1 /\ UNCHANGED idle_map
    /\ UNCHANGED <<touched_frames, last_write, envVars, timeVars, kbitmap, wpos, scanVars, prVars, phases,
                   walk_log>>

(***************************************************************************)
(* scanner.rs: get_maps                                                    *)
(***************************************************************************)
\* scanner.rs 21-22 and main.rs 69-75: File::open(path)?
GetMaps_Open ==
    /\ pc = "get_maps"
    /\ io' = io \cup {"maps_open"}
    /\ phases' = Append(phases, "list")
    /\ \E ok \in BOOLEAN :
          IF ok THEN pc' = "get_maps_lines" /\ UNCHANGED exit_code ELSE Exit1
    /\ UNCHANGED <<touched_frames, last_write, envVars, timeVars, idleVars, scanVars, prVars, walk_log>>

\* scanner.rs 26-37: the loop over reader.lines(); a line that cannot be read
\* (a read error, or bytes that are not UTF-8) ends get_maps with the error
\* (line?).
GetMaps_Lines ==
    /\ pc = "get_maps_lines"
    /\ io' = io \cup {"maps_read"}
    /\ \E ok \in BOOLEAN :
          IF ok /\ \A k \in 1 .. Len(listing) : Decodable(listing[k])
          THEN /\ regions' = ParsedRegions(listing)
               /\ pc' = "pagemap_new"
               /\ UNCHANGED exit_code
          ELSE Exit1 /\ UNCHANGED regions
    /\ UNCHANGED <<touched_frames, last_write, envVars, timeVars, idleVars, region_idx, total_active_pages,
                   total_walked_pages, prVars, phases, walk_log>>

(***************************************************************************)
(* pagemap.rs: new and process_region; main.rs: the loop over the regions  *)
(***************************************************************************)
\* pagemap.rs 15-19 and main.rs 77-86: File::open(path)?, then the totals.
Pagemap_New ==
    /\ pc = "pagemap_new"
    /\ io' = io \cup {"pagemap_open"}
    /\ phases' = Append(phases, "open_pagemap")
    /\ \E ok \in BOOLEAN :
          IF ok
          THEN /\ pc' = "next_region"
               /\ region_idx' = 1
               /\ total_active_pages' = 0
               /\ total_walked_pages' = 0
               /\ UNCHANGED exit_code
          ELSE Exit1 /\ UNCHANGED <<region_idx, total_active_pages, total_walked_pages>>
    /\ UNCHANGED <<touched_frames, last_write, envVars, timeVars, idleVars, regions, prVars, walk_log>>

\* main.rs 89: if region.start > PAGE_OFFSET { continue; }
region_filtered(start) == U64Gt(start, PAGE_OFFSET)

\* total_after with the counters of a failed region added as well.
total_after_adds_failed(total, ok, count) == total + count

\* main.rs 94-104: what a total becomes after a region's result.
total_after(total, ok, count) == IF ok THEN total + count ELSE total

\* The entry of walk_log for the region at region_idx.
Logged(outcome) ==
    [start |-> regions[region_idx].start, end |-> regions[region_idx].end,
     outcome |-> outcome, active |-> active_pages, walked |-> walked_pages,
     processed |-> pages_processed]

\* main.rs 88-93 and 107: the head of the for loop.
Main_NextRegion ==
    /\ pc = "next_region"
    /\ IF region_idx > Len(regions)
       THEN /\ \E c \in ScanCosts : now' = now + c
            /\ ts4' = now'
            /\ pc' = "report"
            /\ UNCHANGED <<region_idx, phases, walk_log>>
       ELSE IF region_filtered(regions[region_idx].start)
       THEN /\ region_idx' = region_idx + 1
            /\ walk_log' = Append(walk_log, [Logged("filtered") EXCEPT
                                !.active = 0, !.walked = 0, !.processed = U64Zero])
            /\ UNCHANGED <<pc, now, ts4, phases>>
       ELSE /\ pc' = "pr_seek"
            /\ phases' = Append(phases, "walk")
            /\ UNCHANGED <<region_idx, now, ts4, walk_log>>
    /\ UNCHANGED <<touched_frames, last_write, exit_code, envVars, ts1, set_duration, ts3, est_micros, idleVars,
                   regions, total_active_pages, total_walked_pages, prVars, io>>

\* main.rs 98-104: process_region returned Err; the loop goes on.
RegionFailed ==
    /\ total_active_pages' = total_after(total_active_pages, FALSE, active_pages)
    /\ total_walked_pages' = total_after(total_walked_pages, FALSE, walked_pages)
    /\ walk_log' = Append(walk_log, Logged("err"))
    /\ region_idx' = region_idx + 1
    /\ pc' = "next_region"

\* seek_start with the seek left out: the file stays where the last call left it.
seek_start_omitted(pos, offset) == pos

\* self.file.seek(SeekFrom::Start(offset)): the position after the seek.
seek_start(pos, offset) == offset

\* Where a read_exact that failed may leave the file: it consumed nothing, or
\* all but the last byte it was asked for.
PositionsAfterFailedRead(pos, count) ==
    {pos, U64AddSmall(pos, count * PAGEMAP_ENTRY_SIZE - 1)}

\* pagemap.rs 29-45: the page count, the offset, the seek, the counters.
ProcessRegion_Seek ==
    /\ pc = "pr_seek"
    /\ io' = io \cup {"pagemap_seek"}
    /\ LET start_addr == regions[region_idx].start
           end_addr   == regions[region_idx].end
           offset     == U64MulSmall(U64DivPow2(start_addr, page_size),
                                     PAGEMAP_ENTRY_SIZE)
       IN  /\ num_pages' = U64DivPow2(U64WrappingSub(end_addr, start_addr), page_size)
           /\ active_pages' = 0
           /\ walked_pages' = 0
           /\ pages_processed' = U64Zero
           /\ \E ok \in BOOLEAN :
                 IF ok
                 THEN /\ file_pos' = seek_start(file_pos, offset)
                      /\ pc' = "pr_loop"
                      /\ UNCHANGED <<region_idx, total_active_pages,
                                     total_walked_pages, walk_log>>
                 ELSE /\ RegionFailed
                      /\ UNCHANGED file_pos
    /\ UNCHANGED <<touched_frames, last_write, exit_code, envVars, timeVars, idleVars, regions, pages_to_read,
                   buffer, i, last_idx, phases>>

\* chunk_pages with the last chunk not shortened to what is left.
chunk_pages_not_shortened(n, processed) == CHUNK_SIZE

\* std::cmp::min(CHUNK_SIZE as u64, num_pages - pages_processed) as usize
chunk_pages(n, processed) ==
    LET left == U64WrappingSub(n, processed)
    IN  IF U64Lt(left, U64FromNat(CHUNK_SIZE)) THEN U64ToNat(left) ELSE CHUNK_SIZE

\* The entries read_exact delivers from byte position pos.
EntriesAt(tbl, pos, count) ==
    LET vpn == U64DivPow2(pos, PAGEMAP_ENTRY_SIZE)
    IN  [k \in 1 .. count |-> EntryAtVpn(tbl, U64AddSmall(vpn, k - 1))]

\* How many pages into a region the reads of one call are followed: a read
\* that starts at or beyond it fails (the table has an end).
MaxPagesRead == 1025

\* pagemap.rs 47-52 and 74-77, main.rs 94-104: the head of the while loop.
ProcessRegion_Loop ==
    /\ pc = "pr_loop"
    /\ IF U64Lt(pages_processed, num_pages)
       THEN /\ pages_to_read' = chunk_pages(num_pages, pages_processed)
            /\ io' = io \cup {"pagemap_read"}
            /\ \E ok \in BOOLEAN :
                  IF ok /\ U64Lt(pages_processed, U64FromNat(MaxPagesRead))
                  THEN /\ buffer' = EntriesAt(table, file_pos, pages_to_read')
                       /\ file_pos' = U64AddSmall(file_pos,
                                          pages_to_read' * PAGEMAP_ENTRY_SIZE)
                       /\ i' = 0
                       /\ pc' = "pr_entry"
                       /\ UNCHANGED <<region_idx, total_active_pages,
                                      total_walked_pages, walk_log>>
                  ELSE /\ RegionFailed
                       /\ file_pos' \in PositionsAfterFailedRead(file_pos,
                                                                 pages_to_read')
                       /\ UNCHANGED <<buffer, i>>
       ELSE /\ total_active_pages' = total_after(total_active_pages, TRUE, active_pages)
            /\ total_walked_pages' = total_after(total_walked_pages, TRUE, walked_pages)
            /\ walk_log' = Append(walk_log, Logged("ok"))
            /\ region_idx' = region_idx + 1
            /\ pc' = "next_region"
            /\ UNCHANGED <<pages_to_read, buffer, file_pos, i, io>>
    /\ UNCHANGED <<touched_frames, last_write, exit_code, envVars, timeVars, idleVars, regions, num_pages,
                   pages_processed, active_pages, walked_pages, last_idx, phases>>

\* pagemap.rs 54-74: one entry of the chunk, or the end of the chunk.
ProcessRegion_Entry ==
    /\ pc = "pr_entry"
    /\ IF i < pages_to_read
       THEN LET r == process_entry(buffer[i + 1], idle_map, active_pages, walked_pages)
            IN  /\ active_pages' = r.active
                /\ walked_pages' = r.walked
                /\ last_idx' = r.idx
                /\ i' = i + 1
                /\ UNCHANGED <<pc, pages_processed>>
       ELSE /\ pages_processed' = U64AddSmall(pages_processed, pages_to_read)
            /\ pc' = "pr_loop"
            /\ UNCHANGED <<active_pages, walked_pages, last_idx, i>>
    /\ UNCHANGED <<exit_code, envVars, timeVars, idleVars, scanVars, file_pos,
                   num_pages, pages_to_read, buffer, histVars>>

\* pagemap.rs 54-72: the for loop over the entries of one chunk, from entry k.
RECURSIVE process_entries(_, _, _, _)
process_entries(buf, data, k, acc) ==
    IF k > Len(buf) THEN acc
    ELSE LET r == process_entry(buf[k], data, acc.active, acc.walked)
         IN  process_entries(buf, data, k + 1,
                 [active |-> r.active, walked |-> r.walked,
                  seen |-> Append(acc.seen, buf[k])])

\* pagemap.rs 47-75: the while loop with `left` pages to go, reading chunks of
\* at most `chunk` entries from byte position pos.
RECURSIVE process_chunks(_, _, _, _, _, _)
process_chunks(tbl, data, pos, left, chunk, acc) ==
    IF left = 0 THEN acc
    ELSE LET to_read == IF chunk < left THEN chunk ELSE left
         IN  process_chunks(tbl, data,
                 U64AddSmall(pos, to_read * PAGEMAP_ENTRY_SIZE),
                 left - to_read, chunk,
                 process_entries(EntriesAt(tbl, pos, to_read), data, 1, acc))

\* pagemap.rs 23-78: process_region when every read succeeds, with the chunk
\* size as a parameter; `seen` lists the entries in the order they were examined.
process_region_chunked(tbl, data, start_addr, end_addr, chunk) ==
    process_chunks(tbl, data,
        U64MulSmall(U64DivPow2(start_addr, page_size), PAGEMAP_ENTRY_SIZE),
        U64ToNat(U64DivPow2(U64WrappingSub(end_addr, start_addr), page_size)),
        chunk, [active |-> 0, walked |-> 0, seen |-> <<>>])

(***************************************************************************)
(* main.rs: the report                                                     *)
(***************************************************************************)
\* Duration::as_micros() of a duration held in nanoseconds
as_micros(ns) == ns \div 1000

\* estimate_micros with half the reload-and-scan time added instead of subtracted.
estimate_micros_adds(total_duration, set_dur, read_walk_duration) ==
    as_micros(total_duration) - (as_micros(set_dur) \div 2)
        + (as_micros(read_walk_duration) \div 2)

\* estimate_micros with the two overheads doubled instead of halved.
estimate_micros_doubles(total_duration, set_dur, read_walk_duration) ==
    as_micros(total_duration) - (as_micros(set_dur) * 2)
        - (as_micros(read_walk_duration) * 2)

\* main.rs 120-122
estimate_micros(total_duration, set_dur, read_walk_duration) ==
    as_micros(total_duration) - (as_micros(set_dur) \div 2)
        - (as_micros(read_walk_duration) \div 2)

\* main.rs 115-131
Main_Report ==
    /\ pc = "report"
    /\ est_micros' = estimate_micros(ts4 - ts1, set_duration, ts4 - ts3)
    /\ pc' = "done"
    /\ exit_code' = 0
    /\ phases' = Append(phases, "report")
    /\ UNCHANGED <<touched_frames, last_write, envVars, now, ts1, set_duration, ts3, ts4, idleVars, scanVars,
                   prVars, io, walk_log>>

Next ==
    \/ Main_Start
    \/ SetIdlemap_Exists
    \/ SetIdlemap_Open
    \/ SetIdlemap_Write
    \/ Main_Sleep
    \/ Load_Open
    \/ Load_Read
    \/ GetMaps_Open
    \/ GetMaps_Lines
    \/ Pagemap_New
    \/ Main_NextRegion
    \/ ProcessRegion_Seek
    \/ ProcessRegion_Loop
    \/ ProcessRegion_Entry
    \/ Main_Report

Spec == Init /\ [][Next]_vars

\* main up to the return of set_idlemap, as a process that keeps running: a
\* step it can take is eventually taken (the write loop has no wait in it).
NextReset ==
    \/ Main_Start
    \/ SetIdlemap_Exists
    \/ SetIdlemap_Open
    \/ SetIdlemap_Write

SpecReset == Init /\ [][NextReset]_vars /\ WF_vars(NextReset)

(***************************************************************************)
(* The program on a listing whose lines are any text: an address range     *)
(* whose end is below its start parses like any other.                     *)
(***************************************************************************)
\* "6000-3000 rw-p 00000000 00:00 0"
LineReversed ==
    <<"6", "0", "0", "0", "-", "3", "0", "0", "0", " ", "r", "w", "-", "p", " ", "0", "0", "0", "0", "0", "0", "0", "0", " ", "0", "0", ":", "0", "0", " ", "0">>

ListingReversed == <<LineScenario, LineReversed, LineSix>>
ListingsAnyLines == {ListingScenario, ListingReversed}

InitAnyLines ==
    /\ pc = "main"
    /\ exit_code = NoIndex
    /\ duration \in Durations
    /\ now = 0
    /\ ts1 = 0 /\ set_duration = 0 /\ ts3 = 0 /\ ts4 = 0 /\ est_micros = 0
    /\ \E len \in BitmapLens : kbitmap = [k \in 1 .. len |-> 0]
    /\ kernel_frames = {}
    /\ wpos = 0
    /\ idle_map = <<>>
    /\ listing \in ListingsAnyLines
    /\ regions = <<>>
    /\ region_idx = 0
    /\ table \in Tables
    /\ file_pos = U64Zero
    /\ num_pages = U64Zero /\ pages_processed = U64Zero
    /\ pages_to_read = 0 /\ buffer = <<>> /\ i = 0
    /\ active_pages = 0 /\ walked_pages = 0
    /\ total_active_pages = 0 /\ total_walked_pages = 0
    /\ last_idx = NoIndex
    /\ io = {}
    /\ phases = <<>>
    /\ walk_log = <<>>
    /\ touched_frames = {}
    /\ last_write = NoWrite

\* The exit status of a Rust process that panicked.
PanicExitCode == 101

\* pagemap.rs 30: end_addr - start_addr with end_addr < start_addr in a build
\* with overflow checks: the subtraction panics. (Without them it wraps, which
\* is ProcessRegion_Seek.)
ProcessRegion_SubOverflow ==
    /\ pc = "pr_seek"
    /\ U64Lt(regions[region_idx].end, regions[region_idx].start)
    /\ pc' = "panic"
    /\ exit_code' = PanicExitCode
    /\ UNCHANGED <<envVars, timeVars, idleVars, scanVars, prVars, histVars>>

NextAnyLines ==
    \/ Next
    \/ ProcessRegion_SubOverflow

SpecAnyLines == InitAnyLines /\ [][NextAnyLines]_vars

(***************************************************************************)
(* Reference definitions the properties are stated with: the layout of an  *)
(* entry and of the bitmap by arithmetic, independent of the masks and     *)
(* shifts of the code.                                                     *)
(***************************************************************************)
RefPresent(entry) == entry[1] >= 2^15
RefFrame(entry) == <<entry[1] % 2^7, entry[2], entry[3]>>

\* Whether frame f has its byte inside a bitmap of len bytes.
RefInside(f, len) ==
    f[1] = 0 /\ f[2] < 2^7 /\ (f[2] * LimbLo + f[3]) \div 8 < len

\* Whether bit (f % 8) of byte (f / 8) is cleared, for f inside the bitmap.
RefBitCleared(data, f) ==
    BitOf(data[((f[2] * LimbLo + f[3]) \div 8) + 1], f[3] % 8) = 0

RefWalked(entry) == RefPresent(entry) /\ RefFrame(entry) # U64Zero
RefActive(entry, data) ==
    /\ RefWalked(entry)
    /\ RefInside(RefFrame(entry), Len(data))
    /\ RefBitCleared(data, RefFrame(entry))

\* The entries of the n = (end - start) / 4096 pages from page start / 4096.
RefPages(start, end) == U64ToNat(U64DivPow2(U64WrappingSub(end, start), 4096))
RefEntry(tbl, start, k) == EntryAtVpn(tbl, U64AddSmall(U64DivPow2(start, 4096), k))

RefWalkedCount(tbl, start, end) ==
    Cardinality({k \in 0 .. RefPages(start, end) - 1 :
                    RefWalked(RefEntry(tbl, start, k))})
RefActiveCount(tbl, data, start, end) ==
    Cardinality({k \in 0 .. RefPages(start, end) - 1 :
                    RefActive(RefEntry(tbl, start, k), data)})

\* The addresses 0x3000 and 0x6000 of the three-page scenario.
Addr3000 == U64(0, 0, 3 * 4096)
Addr6000 == U64(0, 0, 6 * 4096)
Frame10 == U64(0, 0, 10)
Frame20 == U64(0, 0, 20)

(***************************************************************************)
(* C1: every region process_region returns Ok for has walked_pages = the   *)
(* number of its n entries with the present bit and a non-zero frame, and  *)
(* active_pages = the number of those whose frame the bitmap reports       *)
(* active; the table [present 10], [absent], [present 20] with frame 10    *)
(* idle and frame 20 active over three pages yields (active 1, walked 2).  *)
(***************************************************************************)
C1_RegionCounts ==
    \A k \in DOMAIN walk_log :
        walk_log[k].outcome = "ok" =>
            /\ walk_log[k].walked =
                   RefWalkedCount(table, walk_log[k].start, walk_log[k].end)
            /\ walk_log[k].active =
                   RefActiveCount(table, idle_map, walk_log[k].start, walk_log[k].end)
            /\ ( /\ table = TableScenario
                 /\ walk_log[k].start = Addr3000 /\ walk_log[k].end = Addr6000
                 /\ RefInside(Frame20, Len(idle_map))
                 /\ ~RefBitCleared(idle_map, Frame10)
                 /\ RefBitCleared(idle_map, Frame20)
                 => walk_log[k].active = 1 /\ walk_log[k].walked = 2 )

C1_Witness ==
    \E k \in DOMAIN walk_log :
        /\ walk_log[k].outcome = "ok"
        /\ table = TableScenario
        /\ walk_log[k].start = Addr3000 /\ walk_log[k].end = Addr6000
        /\ RefInside(Frame20, Len(idle_map))
        /\ ~RefBitCleared(idle_map, Frame10)
        /\ RefBitCleared(idle_map, Frame20)
        /\ walk_log[k].active = 1 /\ walk_log[k].walked = 2

(***************************************************************************)
(* C2: active_pages <= walked_pages after every entry processed, for every *)
(* pair process_region returns, and for the totals main accumulates.       *)
(***************************************************************************)
C2_ActiveAtMostWalked ==
    /\ active_pages <= walked_pages
    /\ total_active_pages <= total_walked_pages
    /\ \A k \in DOMAIN walk_log : walk_log[k].active <= walk_log[k].walked

C2_Witness ==
    /\ pc = "pr_entry"
    /\ i > 0
    /\ 0 < active_pages /\ active_pages < walked_pages
    /\ 0 < total_active_pages /\ total_active_pages < total_walked_pages

(***************************************************************************)
(* C3: a failed read of the translation table for a region is not fatal:   *)
(* the region adds nothing to the totals (not even the entries of chunks   *)
(* read before the failure), the regions after it are processed, the run   *)
(* goes on to the report; the totals are the sums over the regions that    *)
(* were not filtered out and whose walk succeeded.                         *)
(***************************************************************************)
RECURSIVE SumOk(_, _, _)
SumOk(log, tbl, data) ==
    IF log = <<>> THEN [active |-> 0, walked |-> 0]
    ELSE LET rest == SumOk(Tail(log), tbl, data)
             e    == Head(log)
         IN  IF e.outcome = "ok"
             THEN [active |-> rest.active
                                + RefActiveCount(tbl, data, e.start, e.end),
                   walked |-> rest.walked + RefWalkedCount(tbl, e.start, e.end)]
             ELSE rest

ScanPcs == {"next_region", "pr_seek", "pr_loop", "pr_entry"}

C3_TotalsInv ==
    /\ pc \in ScanPcs \cup {"report", "done"} =>
          /\ total_active_pages = SumOk(walk_log, table, idle_map).active
          /\ total_walked_pages = SumOk(walk_log, table, idle_map).walked
          /\ \A k \in DOMAIN walk_log :
                /\ walk_log[k].start = regions[k].start
                /\ walk_log[k].end = regions[k].end
    /\ pc \in {"report", "done"} => Len(walk_log) = Len(regions)
    /\ ( /\ pc = "next_region" /\ walk_log # <<>>
         /\ walk_log[Len(walk_log)].outcome = "err" ) => ENABLED Next

C3_FailedReadNotFatal ==
    /\ []C3_TotalsInv
    /\ [][ (pc \in ScanPcs) => (pc' \in ScanPcs \cup {"report"}) ]_vars

C3_Witness ==
    /\ pc = "done"
    /\ exit_code = 0
    /\ \E k \in DOMAIN walk_log :
          /\ walk_log[k].outcome = "err"
          /\ walk_log[k].processed = U64FromNat(CHUNK_SIZE)
          /\ walk_log[k].active > 0
          /\ \E j \in DOMAIN walk_log :
                j > k /\ walk_log[j].outcome = "ok" /\ walk_log[j].active > 0
    /\ total_active_pages > 0

(***************************************************************************)
(* C4: no region whose start address is at or above PAGE_OFFSET is handed  *)
(* to the walker, a region starting exactly at PAGE_OFFSET included.       *)
(***************************************************************************)
C4_HighRegionsExcluded ==
    /\ \A k \in DOMAIN walk_log :
          U64Ge(walk_log[k].start, PAGE_OFFSET) => walk_log[k].outcome = "filtered"
    /\ pc \in {"pr_seek", "pr_loop", "pr_entry"} =>
          U64Lt(regions[region_idx].start, PAGE_OFFSET)

(***************************************************************************)
(* C5: with a duration below 0.01 s the run ends with exit status 1 before *)
(* any file operation: no open, write or read of the idle bitmap, of the   *)
(* listing or of the translation table, no sleep, no report.               *)
(***************************************************************************)
C5_ShortDurationRejected ==
    duration < MinDurationNs =>
        /\ pc \in {"main", "exit"}
        /\ pc = "exit" => exit_code = 1
        /\ io = {}
        /\ phases = <<>>
        /\ \A k \in DOMAIN kbitmap : kbitmap[k] = 0
        /\ idle_map = <<>> /\ regions = <<>> /\ now = 0

C5_Witness ==
    /\ duration = MinDurationNs \div 2
    /\ pc = "exit"
    /\ exit_code = 1
    /\ io = {}

(***************************************************************************)
(* C6: for every frame whose byte offset F / 8 is at or beyond the length  *)
(* of the loaded bitmap, is_page_active returns false, and the buffer is   *)
(* never read at an index outside it (an empty bitmap included).           *)
(***************************************************************************)
ProbeFrames ==
    {U64(0, 0, f) : f \in {0, 7, 8, 10, 20, 8 * BitmapLen - 1, 8 * BitmapLen,
                           8 * BitmapLen + 1, 8 * BitmapLen + 8, LimbLo - 1}}
        \cup {U64(0, 1, 0), U64(0, 128, 3), U64(1, 0, 0), U64(127, LimbLo - 1, LimbLo - 1)}

C6_OutsideIsInactive ==
    /\ pc = "get_maps" => \A f \in ProbeFrames :
          /\ ~RefInside(f, Len(idle_map)) =>
                /\ is_page_active(idle_map, f).ret = FALSE
                /\ is_page_active(idle_map, f).idx = NoIndex
          /\ is_page_active(idle_map, f).idx # NoIndex =>
                is_page_active(idle_map, f).idx \in 0 .. Len(idle_map) - 1
    /\ last_idx # NoIndex => last_idx \in 0 .. Len(idle_map) - 1
    /\ ( /\ pc = "pr_entry" /\ i > 0
         /\ RefWalked(buffer[i])
         /\ ~RefInside(RefFrame(buffer[i]), Len(idle_map)) )
       => last_idx = NoIndex

C6_Witness ==
    /\ pc = "pr_entry"
    /\ i > 0
    /\ buffer[i] = EntryPresent64
    /\ Len(idle_map) = BitmapLen
    /\ ~RefInside(RefFrame(buffer[i]), Len(idle_map))
    /\ last_idx = NoIndex
    /\ walked_pages > 0

(***************************************************************************)
(* C7: for every frame F inside the loaded bitmap, is_page_active(F) is    *)
(* true exactly when bit F % 8 of byte F / 8 is cleared; setting that bit  *)
(* makes it false, and no other bit of the bitmap changes the answer.      *)
(***************************************************************************)
\* The bitmap with bit `bit` of byte `byte_idx` (from 0) set to v.
WithBit(data, byte_idx, bit, v) ==
    [data EXCEPT ![byte_idx + 1] =
        data[byte_idx + 1] - BitOf(data[byte_idx + 1], bit) * 2^bit + v * 2^bit]

C7_BitDecides ==
    pc = "get_maps" =>
        \A n \in 0 .. 8 * Len(idle_map) - 1 :
            LET f == U64FromNat(n)
            IN  /\ is_page_active(idle_map, f).ret <=> RefBitCleared(idle_map, f)
                /\ is_page_active(WithBit(idle_map, n \div 8, n % 8, 0), f).ret
                /\ ~is_page_active(WithBit(idle_map, n \div 8, n % 8, 1), f).ret
                /\ \A m \in 0 .. 8 * Len(idle_map) - 1 :
                      m # n =>
                        \A v \in {0, 1} :
                          is_page_active(WithBit(idle_map, m \div 8, m % 8, v), f).ret
                              = is_page_active(idle_map, f).ret

C7_Witness ==
    /\ pc = "get_maps"
    /\ Len(idle_map) = BitmapLen
    /\ is_page_active(idle_map, Frame20).ret
    /\ RefBitCleared(idle_map, Frame20)
    /\ ~is_page_active(idle_map, Frame10).ret
    /\ ~RefBitCleared(idle_map, Frame10)

(***************************************************************************)
(* C8: an entry with the present bit unset adds to neither walked_pages    *)
(* nor active_pages, whatever its low 55 bits and whatever the bitmap says *)
(* of that frame number.                                                   *)
(***************************************************************************)
C8_AbsentEntrySkipped ==
    [][ ( /\ pc = "pr_entry" /\ i < pages_to_read
          /\ ~RefPresent(buffer[i + 1]) )
        => ( /\ walked_pages' = walked_pages
             /\ active_pages' = active_pages
             /\ i' = i + 1 ) ]_vars

C8_Witness ==
    /\ pc = "pr_entry"
    /\ i > 0
    /\ buffer[i] = EntryAbsent20Flags
    /\ RefInside(Frame20, Len(idle_map))
    /\ RefBitCleared(idle_map, Frame20)
    /\ walked_pages = 1 /\ active_pages = 1

(***************************************************************************)
(* C9: an entry whose frame number (bits 0-54) is zero adds to neither     *)
(* walked_pages nor active_pages, present or not, even when bit 0 of the   *)
(* bitmap marks frame 0 active; bits 55-62 do not reach the frame number.  *)
(***************************************************************************)
ProbeEntries ==
    {EntryPresent10, EntryAbsent, EntryPresent20, EntryPresent20Flags,
     EntryAbsent20Flags, EntryPresent0, EntryPresent0Flags, EntryPresent64,
     EntryPresentMax}

\* The entry with bits 55-62 replaced by flags (0 .. 255).
WithFlags(entry, flags) ==
    <<(entry[1] \div 2^15) * 2^15 + flags * 2^7 + (entry[1] % 2^7),
      entry[2], entry[3]>>

C9_FrameInv ==
    \A e \in ProbeEntries :
        /\ entry_pfn(e) = RefFrame(e)
        /\ \A flags \in {0, 1, 128, 255} : entry_pfn(WithFlags(e, flags)) = entry_pfn(e)

C9_ZeroFrameSkipped ==
    /\ []C9_FrameInv
    /\ [][ ( /\ pc = "pr_entry" /\ i < pages_to_read
             /\ RefFrame(buffer[i + 1]) = U64Zero )
           => ( /\ walked_pages' = walked_pages
                /\ active_pages' = active_pages
                /\ i' = i + 1 ) ]_vars

C9_Witness ==
    /\ pc = "pr_entry"
    /\ i > 0
    /\ buffer[i] = EntryPresent0Flags
    /\ Len(idle_map) > 0
    /\ RefBitCleared(idle_map, U64Zero)
    /\ walked_pages = 1 /\ active_pages = 1

(***************************************************************************)
(* C10: the estimate est = total - Dset/2 - reload_scan/2, in whole        *)
(* microseconds with truncating halving, is at most the total elapsed time *)
(* when Dset >= 0 and reload_scan >= 0, and equals it when both are zero.  *)
(***************************************************************************)
ProbeNanos == {0, 1, 999, 1000, 1999, 2000, 3001, 5999, MinDurationNs}

C10_EstimateAtMostTotal ==
    /\ pc \in {"report", "done"} => set_duration >= 0 /\ ts4 - ts3 >= 0
    /\ pc = "done" /\ exit_code = 0 =>
          /\ est_micros <= as_micros(ts4 - ts1)
          /\ (set_duration = 0 /\ ts4 - ts3 = 0) => est_micros = as_micros(ts4 - ts1)
          /\ \A dset \in ProbeNanos, rs \in ProbeNanos :
                /\ estimate_micros(ts4 - ts1, dset, rs) <= as_micros(ts4 - ts1)
                /\ estimate_micros(ts4 - ts1, 0, 0) = as_micros(ts4 - ts1)

C10_Witness ==
    /\ pc = "done" /\ exit_code = 0
    /\ set_duration > 0 /\ ts4 - ts3 > 0
    /\ est_micros = as_micros(ts4 - ts1) - 3
    /\ est_micros > 0

(***************************************************************************)
(* C11                                                                     *)
(***************************************************************************)
\* Where main is while a step that can fail fatally is pending, and where it
\* is once that step has succeeded.
FatalPcs == {"set_idlemap", "set_open", "set_write", "load_open", "load_read",
             "get_maps", "get_maps_lines", "pagemap_new"}
AfterFatal(p) ==
    CASE p = "set_idlemap"    -> {"set_open"}
      [] p = "set_open"       -> {"set_write"}
      [] p = "set_write"      -> {"set_write", "sleep"}
      [] p = "load_open"      -> {"load_read"}
      [] p = "load_read"      -> {"get_maps"}
      [] p = "get_maps"       -> {"get_maps_lines"}
      [] p = "get_maps_lines" -> {"pagemap_new"}
      [] p = "pagemap_new"    -> {"next_region"}

InPhases(name) == \E k \in 1 .. Len(phases) : phases[k] = name

\* A process that ended with exit(1) has status 1, printed no result row and
\* computed no estimate.
C11_ExitInv ==
    pc = "exit" =>
        /\ exit_code = 1
        /\ ~InPhases("report")
        /\ est_micros = 0
        /\ ~ENABLED Next

\* C11: every fatal condition (the control file absent, not opened or failing
\* a write; the bitmap not loaded; the listing not read; the pagemap not
\* opened) ends the process at once with status 1: the failing step is not
\* tried again, no later step of the measurement runs (a failed reset is
\* followed neither by the sleep nor by a load), and no result row is printed.
C11_FatalAborts ==
    /\ []C11_ExitInv
    /\ [][ (pc \in FatalPcs) =>
              /\ pc' \in AfterFatal(pc) \cup {"exit"}
              /\ (pc' = "exit") =>
                     /\ exit_code' = 1
                     /\ phases' \in {phases, Append(phases, "load"),
                                     Append(phases, "list"),
                                     Append(phases, "open_pagemap")}
                     /\ <<timeVars, idleVars, scanVars, prVars, walk_log>>' =
                            <<timeVars, idleVars, scanVars, prVars, walk_log>>
                     /\ (pc \in {"set_idlemap", "set_open", "set_write"}) =>
                            /\ phases' = <<"reset">>
                            /\ "idle_open_read" \notin io' ]_vars
    /\ [][ (pc = "exit") => UNCHANGED vars ]_vars

\* The reset failed on a write after an earlier write had succeeded.
C11_Witness ==
    /\ pc = "exit"
    /\ exit_code = 1
    /\ phases = <<"reset">>
    /\ "idle_write" \in io
    /\ wpos > 0
    /\ ~InPhases("sleep")

(***************************************************************************)
(* C12                                                                     *)
(***************************************************************************)
\* The byte offset of the entry of the page at address start.
RefOffset(start) == U64MulSmall(U64DivPow2(start, 4096), 8)

\* While a region is walked the file is at the region's own offset plus the
\* entries read so far, whatever the earlier calls left behind.
C12_PositionInv ==
    pc \in {"pr_loop", "pr_entry"} =>
        file_pos = U64AddSmall(RefOffset(regions[region_idx].start),
                       (U64ToNat(pages_processed)
                          + (IF pc = "pr_entry" THEN pages_to_read ELSE 0)) * 8)

\* C12: two calls of process_region through the same handle for the same
\* (start, end), with the table and the bitmap unchanged, return the same
\* (active, walked), whatever position an earlier call left the file at: a
\* call for another region, or a call that failed part-way.
C12_SameRegionSameCounts ==
    /\ C12_PositionInv
    /\ \A j \in DOMAIN walk_log : \A k \in DOMAIN walk_log :
          ( /\ walk_log[j].outcome = "ok" /\ walk_log[k].outcome = "ok"
            /\ walk_log[j].start = walk_log[k].start
            /\ walk_log[j].end = walk_log[k].end )
          => /\ walk_log[j].active = walk_log[k].active
             /\ walk_log[j].walked = walk_log[k].walked

\* The same region walked twice with a call between them that failed after
\* its first chunk and left the file in the middle of the table.
C12_Witness ==
    /\ Len(walk_log) = 3
    /\ walk_log[1].outcome = "ok" /\ walk_log[3].outcome = "ok"
    /\ walk_log[1].start = walk_log[3].start /\ walk_log[1].end = walk_log[3].end
    /\ walk_log[1].start = Addr3000
    /\ walk_log[2].outcome = "err"
    /\ walk_log[2].processed = U64FromNat(CHUNK_SIZE)
    /\ walk_log[3].walked = 3
    /\ walk_log[3].active = 1
    /\ file_pos = U64AddSmall(RefOffset(Addr6000), 0)

(***************************************************************************)
(* C13                                                                     *)
(***************************************************************************)
\* The chunk sizes, in entries, the walk is compared over, and the largest
\* region, in pages, it is compared on.
MaxChunk == 4
MaxComparedPages == 6
ChunkSizes == (1 .. MaxChunk) \cup {CHUNK_SIZE}

\* The number of entries of the current region examined so far.
Examined ==
    U64ToNat(pages_processed) + (IF pc = "pr_entry" THEN i ELSE 0)

\* The entry about to be examined is the entry of the next page of the
\* region, and a chunk is the smaller of CHUNK_SIZE and what is left.
C13_ChunkInv ==
    /\ pc = "pr_entry" =>
          /\ pages_to_read >= 1
          /\ pages_to_read <= 1024
          /\ U64ToNat(pages_processed) + pages_to_read <= U64ToNat(num_pages)
          /\ (pages_to_read < 1024 =>
                 U64ToNat(pages_processed) + pages_to_read = U64ToNat(num_pages))
          /\ Len(buffer) = pages_to_read
          /\ i < pages_to_read =>
                 buffer[i + 1] = RefEntry(table, regions[region_idx].start, Examined)
    /\ \A k \in DOMAIN walk_log :
          walk_log[k].outcome = "ok" =>
             /\ U64ToNat(walk_log[k].processed) =
                    RefPages(walk_log[k].start, walk_log[k].end)
             /\ walk_log[k].walked =
                    RefWalkedCount(table, walk_log[k].start, walk_log[k].end)
             /\ walk_log[k].active =
                    RefActiveCount(table, idle_map, walk_log[k].start, walk_log[k].end)

\* Whatever the chunk size, the walk of a region examines its n entries once
\* each, in order, and counts what one read of all n entries counts.
C13_AnyChunkSize ==
    pc = "pagemap_new" =>
        \A r \in DOMAIN regions : \A chunk \in ChunkSizes :
            RefPages(regions[r].start, regions[r].end) <= MaxComparedPages =>
                LET n == RefPages(regions[r].start, regions[r].end)
                    res == process_region_chunked(table, idle_map, regions[r].start,
                                                  regions[r].end, chunk)
                IN  /\ res.seen = [k \in 1 .. n |->
                                       RefEntry(table, regions[r].start, k - 1)]
                    /\ res.walked =
                           RefWalkedCount(table, regions[r].start, regions[r].end)
                    /\ res.active =
                           RefActiveCount(table, idle_map, regions[r].start,
                                          regions[r].end)

\* C13: reading the n entries of a region in chunks gives the counts one read
\* of all n entries gives, for the 1024 entries of the code and for any other
\* positive chunk size: every entry is examined exactly once, in order, none
\* skipped or counted twice where two chunks meet, and the last chunk is
\* shortened to the entries that remain.
C13_ChunkedEqualsWhole ==
    /\ []C13_ChunkInv
    /\ []C13_AnyChunkSize
    /\ [][ (pc = "pr_entry" /\ i < pages_to_read) =>
              /\ Examined' = Examined + 1
              /\ walked_pages' = walked_pages
                     + (IF RefWalked(buffer[i + 1]) THEN 1 ELSE 0)
              /\ active_pages' = active_pages
                     + (IF RefActive(buffer[i + 1], idle_map) THEN 1 ELSE 0) ]_vars
    /\ [][ ( /\ pc \in {"pr_loop", "pr_entry"}
             /\ ~(pc = "pr_entry" /\ i < pages_to_read)
             /\ pc' \in {"pr_loop", "pr_entry"} ) =>
              /\ Examined' = Examined
              /\ walked_pages' = walked_pages
              /\ active_pages' = active_pages ]_vars

\* The 1025-page region walked to its end: a full chunk, then one of one entry.
C13_Witness ==
    \E k \in DOMAIN walk_log :
        /\ walk_log[k].outcome = "ok"
        /\ walk_log[k].processed = U64FromNat(CHUNK_SIZE + 1)
        /\ pages_to_read = 1
        /\ walk_log[k].walked > CHUNK_SIZE \div 2
        /\ walk_log[k].walked < CHUNK_SIZE

(***************************************************************************)
(* C14                                                                     *)
(***************************************************************************)
\* The bitmap was loaded.
Loaded == pc = "get_maps" \/ InPhases("list")

\* The frames probed: every frame the loaded bitmap has a bit for, and
\* frames beyond it.
C14_Frames == {U64(0, 0, f) : f \in FramesOf(Len(idle_map))} \cup ProbeFrames

\* Whether the kernel leaves the bit of frame f alone when it is written.
RefKernelFrame(f) == f[1] = 0 /\ f[2] = 0 /\ f[3] \in kernel_frames

\* The entries of the region a bitmap untouched since the reset reports active.
RefKernelCount(tbl, start, end) ==
    Cardinality({k \in 0 .. RefPages(start, end) - 1 :
                    /\ RefWalked(RefEntry(tbl, start, k))
                    /\ RefKernelFrame(RefFrame(RefEntry(tbl, start, k)))})

C15_OnlyOpenFails ==
    [][ (pc = "get_maps_lines") =>
          /\ pc' = "pagemap_new"
          /\ exit_code' = exit_code
          /\ regions' = ParsedRegions(SelectSeq(listing, Decodable)) ]_vars

(***************************************************************************)
(* C16                                                                     *)
(***************************************************************************)
\* The phase a position of main belongs to: Start 0, Reset 1, Sleep 2,
\* Reload+Scan 3, Report 4, Done 5 (an exit(1) ends the run from any phase).
PhaseOf(p) ==
    CASE p = "main" -> 0
      [] p \in {"set_idlemap", "set_open", "set_write"} -> 1
      [] p = "sleep" -> 2
      [] p \in {"load_open", "load_read", "get_maps", "get_maps_lines",
                "pagemap_new", "next_region", "pr_seek", "pr_loop", "pr_entry"} -> 3
      [] p = "report" -> 4
      [] p = "done" -> 5
      [] p = "exit" -> 6

FixedPhases == <<"reset", "sleep", "load", "list", "open_pagemap">>

\* The steps taken so far are a prefix of: reset, sleep, load, list, open the
\* pagemap, any number of walks, report; and the file operations of a step
\* come only after the steps before it.
C16_OrderInv ==
    /\ \A k \in 1 .. Len(phases) :
          /\ k <= Len(FixedPhases) => phases[k] = FixedPhases[k]
          /\ k > Len(FixedPhases) => phases[k] \in {"walk", "report"}
          /\ phases[k] = "report" => k = Len(phases)
    /\ InPhases("sleep") => last_write = 0
    /\ "idle_open_write" \in io => InPhases("reset")
    /\ "idle_open_read" \in io => InPhases("sleep")
    /\ idle_map # <<>> => "idle_read" \in io
    /\ "maps_open" \in io => (InPhases("load") /\ "idle_read" \in io)
    /\ "pagemap_open" \in io => (InPhases("list") /\ "maps_read" \in io)
    /\ ("pagemap_seek" \in io \/ "pagemap_read" \in io) =>
          (InPhases("open_pagemap") /\ InPhases("walk"))
    /\ pc = "report" => ~InPhases("report")
    /\ pc = "done" => (phases[Len(phases)] = "report" /\ exit_code = 0)
    /\ PhaseOf(pc) < 2 => ~InPhases("sleep")
    /\ PhaseOf(pc) < 3 => ~InPhases("load")
    /\ PhaseOf(pc) \in {4, 5} => Len(phases) >= Len(FixedPhases)

\* C16: within one cycle the phases come only in the order Start, Reset,
\* Sleep, Reload+Scan, Report, Done, never going back: the reset is done once
\* and has completed before the sleep starts, the bitmap is loaded once and
\* only after the sleep, the regions are listed and the pagemap opened only
\* after the load, every walk comes after the load and before the report, and
\* the report is produced at most once.
C16_PhaseOrder ==
    /\ []C16_OrderInv
    /\ [][ /\ PhaseOf(pc') >= PhaseOf(pc)
           /\ PhaseOf(pc') \in {PhaseOf(pc), PhaseOf(pc) + 1, 6}
           /\ (pc # "set_write") => last_write' = last_write
           /\ (pc # "load_read") => idle_map' = idle_map ]_vars

\* A whole cycle with three walks, ended by the report.
C16_Witness ==
    /\ pc = "done"
    /\ phases = <<"reset", "sleep", "load", "list", "open_pagemap", "walk", "walk",
                  "walk", "report">>
    /\ last_write = 0
    /\ idle_map # <<>>

(***************************************************************************)
(* C17                                                                     *)
(***************************************************************************)
\* C17: every region get_maps produced and main hands to process_region has
\* start <= end, so (end - start) / 4096 is never computed with end < start:
\* the subtraction neither panics nor wraps, whatever line parsed as two
\* hexadecimal addresses.
C17_RegionsOrdered ==
    /\ pc \in {"pr_seek", "pr_loop", "pr_entry"} =>
          U64Le(regions[region_idx].start, regions[region_idx].end)
    /\ pc # "panic"
    /\ pc \in {"pr_loop", "pr_entry"} =>
          U64Le(num_pages, U64DivPow2(regions[region_idx].end, 4096))

(***************************************************************************)
(* C18                                                                     *)
(***************************************************************************)
\* The loop is entered again only after a write that returned a positive
\* count; a zero or an error is the last thing the loop saw.
C18_LoopInv ==
    /\ pc = "set_write" => (last_write = NoWrite \/ last_write > 0)
    /\ pc = "set_write" => wpos <= Len(kbitmap)
    /\ last_write = 0 => (pc \notin {"main", "set_idlemap", "set_open", "set_write"}
                             /\ InPhases("reset"))
    /\ last_write = WriteErr => (pc = "exit" /\ exit_code = 1 /\ phases = <<"reset">>)
    /\ pc = "set_write" => ENABLED SetIdlemap_Write

\* C18: the reset loop writes the buffer of 0xFF bytes again and again and
\* stops at the first write that reports zero bytes or an error, making no
\* write after it; a zero ends set_idlemap with success (main goes on to the
\* sleep), an error ends it with that error (main exits with status 1); and
\* since the control file ends up answering zero or an error, the loop ends.
C18_ResetLoopEnds ==
    /\ []C18_LoopInv
    /\ [][ (pc = "set_write") =>
              /\ "idle_write" \in io'
              /\ (last_write' = 0) =>
                     (pc' = "sleep" /\ exit_code' = exit_code /\ kbitmap' = kbitmap)
              /\ (last_write' = WriteErr) =>
                     (pc' = "exit" /\ exit_code' = 1 /\ kbitmap' = kbitmap)
              /\ (last_write' > 0) =>
                     /\ pc' = "set_write"
                     /\ wpos' = wpos + last_write'
                     /\ \A k \in 1 .. Len(kbitmap) :
                            kbitmap'[k] = IF k > wpos /\ k <= wpos'
                                          THEN ByteWritten(kbitmap[k], 255, k, kernel_frames)
                                          ELSE kbitmap[k] ]_vars
    /\ [][ (pc # "set_write") => (last_write' = last_write /\ wpos' = wpos) ]_vars
    /\ (pc = "set_write") ~> (pc \in {"sleep", "exit"})

\* The loop ended on a zero after it had written the whole bitmap in more
\* than one write.
C18_Witness ==
    /\ pc = "sleep"
    /\ last_write = 0
    /\ wpos = BitmapLen
    /\ Len(kbitmap) = BitmapLen
    /\ \A k \in 1 .. Len(kbitmap) :
          kbitmap[k] = ByteWritten(0, 255, k, kernel_frames)
    /\ exit_code = NoIndex

(***************************************************************************)
(* C19                                                                     *)
(***************************************************************************)
\* The clock readings of a finished run are in order: T1, the end of the
\* reset (T1 + Dset), T3, T4.
ClockInOrder ==
    /\ set_duration >= 0
    /\ ts1 + set_duration <= ts3
    /\ ts3 <= ts4

\* The time between the end of the reset and T3, in nanoseconds.
SleepWindow == ts3 - (ts1 + set_duration)

\* C19 as stated: the estimate is never negative and never below the time
\* that elapsed between the end of the reset and T3, hence never below the
\* requested interval when the sleep lasted at least that long.
C19_EstimateCoversWindow ==
    pc = "done" =>
        /\ ClockInOrder
        /\ est_micros >= 0
        /\ est_micros * 1000 >= SleepWindow
        /\ SleepWindow >= duration => est_micros * 1000 >= duration

\* C19, amended: counted in whole microseconds, as the estimate is, the
\* estimate is never negative and never below the time between the end of
\* the reset and T3, hence never below the requested interval in whole
\* microseconds when the sleep lasted at least that long; it can fall short of
\* the exact time by the fraction of a microsecond the conversion drops.
C19_EstimateCoversWindowMicros ==
    /\ pc = "done" =>
          /\ ClockInOrder
          /\ est_micros >= 0
          /\ est_micros >= as_micros(SleepWindow)
          /\ est_micros * 1000 > SleepWindow - 1000
          /\ SleepWindow >= duration => est_micros >= as_micros(duration)
    /\ pc = "report" =>
          \A d \in ProbeNanos, w \in ProbeNanos, r \in ProbeNanos :
              /\ estimate_micros(d + w + r, d, r) >= 0
              /\ estimate_micros(d + w + r, d, r) >= as_micros(w)

\* A run whose reset and scan took no measurable time and whose sleep overran
\* by less than a microsecond: the estimate is the window in whole
\* microseconds, which is below the exact window.
C19_Witness ==
    /\ pc = "done"
    /\ set_duration = 0
    /\ ts4 = ts3
    /\ SleepWindow = duration + 700
    /\ est_micros = as_micros(SleepWindow)
    /\ est_micros * 1000 < SleepWindow
    /\ est_micros >= as_micros(duration)

====
